---- MODULE Spec2Model ----
(***************************************************************************)
(* Model of src/main.py: a LINE webhook relay.  callback() verifies the    *)
(* signature and dispatches one event to handle_message (text) or          *)
(* handle_audio_message (audio).  The handlers call the collaborators      *)
(* (OpenAI extraction and transcription, Google Calendar insert, Notion    *)
(* pages.create, LINE reply, the temp file on disk); every collaborator    *)
(* call is one step whose outcome (return or raise) is chosen by the       *)
(* environment.                                                            *)
(***************************************************************************)
EXTENDS Integers, Sequences, FiniteSets, TLC

VARIABLES
    calendar_service,   \* main.py:57-65  TRUE iff the global is not None
    notion_client,      \* main.py:36     TRUE iff the global is not None
    database_id,        \* main.py:214    TRUE iff NOTION_DATABASE_ID is set
    pc,                 \* position inside callback / the running handler
    kind,               \* "none" | "text" | "audio": the event's message type
    text,               \* event.message.text (text events)
    signature_ok,       \* the request's X-Line-Signature verifies
    http_status,        \* 0 while the request runs, then 200 | 400 | 500
    response,           \* <<r>>: what the extraction capability answered
    event_data,         \* process_message_for_calendar: parse result (Optional)
    result,             \* process_message_for_calendar: add_calendar_event result
    content,            \* handlers' local `content`
    notion_result,      \* handlers' local `notion_result` (Optional)
    reply_text,         \* handlers' local `reply_text` / `message`
    transcription,      \* handle_audio_message: Whisper's text (Optional)
    temp_created,       \* NamedTemporaryFile created a file for this event
    temp_exists,        \* that file is on disk now
    pending,            \* handle_audio_message: an exception is in flight
    escaped,            \* an exception left the handler (reached handler.handle)
    replies,            \* replies LINE accepted for this event's reply token
    extract_calls,      \* number of chat.completions.create calls for this event
    calendar_writes,    \* bodies passed to events().insert().execute()
    notes_writes        \* properties passed to notion pages.create()

config == <<calendar_service, notion_client, database_id>>
request == <<kind, text, signature_ok, http_status>>
locals == <<response, event_data, result, content, notion_result, reply_text,
            transcription, pending>>
disk == <<temp_created, temp_exists>>
effects == <<replies, extract_calls, calendar_writes, notes_writes>>
vars == <<config, pc, request, locals, disk, escaped, effects>>

----------------------------------------------------------------------------
(* Bounds of the model *)

MaxTextLen == 5

(* Program constants *)

PrefixLen == 3
TitleLen == 100

----------------------------------------------------------------------------
(* Strings are sequences of characters *)

Chars == {"/", "a", " "}
Texts == UNION {[1..n -> Chars] : n \in 0..MaxTextLen}
NotePrefix == <<"/", "a", " ">>

startswith(s, p) == Len(s) >= Len(p) /\ SubSeq(s, 1, Len(p)) = p

\* s[n:]
SliceFrom(s, n) == SubSeq(s, n + 1, Len(s))

\* s[:n]
SliceTo(s, n) == SubSeq(s, 1, IF Len(s) < n THEN Len(s) ELSE n)

RECURSIVE lstrip(_)
lstrip(s) == IF s # <<>> /\ Head(s) = " " THEN lstrip(Tail(s)) ELSE s

RECURSIVE rstrip(_)
rstrip(s) ==
    IF s # <<>> /\ s[Len(s)] = " " THEN rstrip(SubSeq(s, 1, Len(s) - 1)) ELSE s

strip(s) == rstrip(lstrip(s))

\* Optional values: None is the empty sequence, a value x is <<x>>
None == <<>>
Some(x) == <<x>>

----------------------------------------------------------------------------
(* Timestamps.  An ISO-8601 string is its wall-clock part and its UTC      *)
(* offset part ("" when the string carries none); wall = "bad" stands for  *)
(* any text datetime.fromisoformat rejects.                                *)

NaiveStart == [wall |-> "2026-11-04T15:00:00", off |-> ""]
NaiveEnd == [wall |-> "2026-11-04T16:00:00", off |-> ""]
AwareStart == [wall |-> "2026-11-04T15:00:00", off |-> "+00:00"]
BadTime == [wall |-> "bad", off |-> ""]
NoTime == [wall |-> "", off |-> ""]

\* os.getenv('TIMEZONE', 'Asia/Taipei') with TIMEZONE unset
TIMEZONE == "Asia/Taipei"

\* the UTC offset pytz gives a wall-clock time in a named zone
utcoffset(zone) == IF zone = "Asia/Taipei" THEN "+08:00" ELSE "+00:00"

\* datetime.fromisoformat: None stands for ValueError
fromisoformat(s) ==
    IF s.wall = "bad"
    THEN None
    ELSE Some([wall |-> s.wall, tzinfo |-> IF s.off = "" THEN "None" ELSE s.off])

\* a localize that takes every wall-clock time as UTC
localize_utc(zone, dt) == [wall |-> dt.wall, tzinfo |-> "+00:00"]

\* tz.localize(dt) for tz = pytz.timezone(zone)
localize(zone, dt) == [wall |-> dt.wall, tzinfo |-> utcoffset(zone)]

\* dt.isoformat()
isoformat(dt) == [wall |-> dt.wall, off |-> IF dt.tzinfo = "None" THEN "" ELSE dt.tzinfo]

----------------------------------------------------------------------------
(* Intent extraction: parse_calendar_event                                 *)

\* A decoded JSON object of the tool call's arguments: `keys` are the keys
\* present; the field of an absent key holds a filler that is never read
Keys == {"has_event", "title", "start_time", "end_time", "location"}
TitleValues == {"meeting"}
StartValues == {NaiveStart, AwareStart, BadTime}
EndValues == {NaiveEnd, BadTime}
LocationValues == {"", "Taipei"}

ArgsSet ==
    {a \in [keys : SUBSET Keys, has_event : BOOLEAN, title : TitleValues \cup {""},
            start_time : StartValues \cup {NoTime},
            end_time : EndValues \cup {NoTime},
            location : LocationValues \cup {"None"}] :
        /\ ("has_event" \in a.keys) \/ (a.has_event = FALSE)
        /\ ("title" \in a.keys) <=> (a.title # "")
        /\ ("start_time" \in a.keys) <=> (a.start_time # NoTime)
        /\ ("end_time" \in a.keys) <=> (a.end_time # NoTime)
        /\ ("location" \in a.keys) <=> (a.location # "None")}

NoArgs == [keys |-> {}, has_event |-> FALSE, title |-> "", start_time |-> NoTime,
           end_time |-> NoTime, location |-> "None"]

\* What openai_client.chat.completions.create can do: raise ("fault"), answer
\* without tool_calls ("no_tool_calls"), answer with arguments json.loads
\* rejects ("bad_json"), or answer with a decodable object ("args")
Responses ==
    {[shape |-> s, args |-> NoArgs] : s \in {"fault", "no_tool_calls", "bad_json"}}
        \cup {[shape |-> "args", args |-> a] : a \in ArgsSet}

\* The event dict parse_calendar_event returns has these four keys; its
\* 'location' is None ("None") when the arguments carry none
EventKeys == {"title", "start_time", "end_time", "location"}

Raise(e) == [raised |-> TRUE, error |-> e, value |-> None]
Return(v) == [raised |-> FALSE, error |-> "", value |-> v]

\* main.py:104-127, the body of the try block: args.get('has_event') is falsy
\* when the key is absent; args['title'] etc. raise KeyError when absent
parse_calendar_event_try(r) ==
    IF r.shape = "fault" THEN Raise("APIError")
    ELSE IF r.shape = "no_tool_calls" THEN Return(None)
    ELSE IF r.shape = "bad_json" THEN Raise("JSONDecodeError")
    ELSE IF ~("has_event" \in r.args.keys /\ r.args.has_event) THEN Return(None)
    ELSE IF ~({"title", "start_time", "end_time"} \subseteq r.args.keys)
        THEN Raise("KeyError")
    ELSE Return(Some([keys |-> EventKeys,
                      title |-> r.args.title,
                      start_time |-> r.args.start_time,
                      end_time |-> r.args.end_time,
                      location |-> r.args.location]))

\* parse_calendar_event without its try/except
parse_calendar_event_unguarded(r) == parse_calendar_event_try(r)

\* main.py:103-130: except Exception: log and return None
parse_calendar_event(r) ==
    LET body == parse_calendar_event_try(r)
    IN  IF body.raised THEN Return(None) ELSE body

----------------------------------------------------------------------------
(* Calendar Action: add_calendar_event                                     *)

NoResult == [success |-> FALSE, event_id |-> "", event_link |-> "", summary |-> "",
             start |-> NoTime, error |-> ""]

CalendarFailure(e) == [NoResult EXCEPT !.error = e]

\* What events().insert(...).execute() can do: raise ("fault"), return the
\* created event ("created"), or return a body without 'summary' ("incomplete")
InsertOutcomes == {"created", "fault", "incomplete"}

\* main.py:147-161: the request body
EventBody(event_data_, start_dt, end_dt) ==
    [summary |-> event_data_.title,
     start |-> [dateTime |-> isoformat(start_dt), timeZone |-> TIMEZONE],
     end |-> [dateTime |-> isoformat(end_dt), timeZone |-> TIMEZONE],
     useDefault |-> TRUE,
     location |-> IF "location" \notin event_data_.keys
                     \/ event_data_.location \in {"None", ""}
                  THEN None ELSE Some(event_data_.location)]

\* main.py:136-175, the body of the try block.  `service` is the global
\* calendar_service (FALSE = None); `outcome` is what the insert call does.
\* `attempts` are the insert calls made.  event_data['start_time'] etc.
\* raise KeyError on a dict without the key; event_data.get('location')
\* does not.
add_calendar_event_try(event_data_, service, outcome) ==
    LET Failed(e, calls) == [raised |-> TRUE, error |-> e, value |-> NoResult,
                             attempts |-> calls]
        start_p == fromisoformat(event_data_.start_time)
        end_p == fromisoformat(event_data_.end_time)
        start_dt == IF start_p[1].tzinfo = "None"
                    THEN localize(TIMEZONE, start_p[1]) ELSE start_p[1]
        end_dt == IF end_p[1].tzinfo = "None"
                  THEN localize(TIMEZONE, end_p[1]) ELSE end_p[1]
        event == EventBody(event_data_, start_dt, end_dt)
        attempt == <<[body |-> event, outcome |-> outcome]>>
    IN  IF "start_time" \notin event_data_.keys THEN Failed("KeyError", <<>>)
        ELSE IF start_p = None THEN Failed("ValueError", <<>>)
        ELSE IF "end_time" \notin event_data_.keys THEN Failed("KeyError", <<>>)
        ELSE IF end_p = None THEN Failed("ValueError", <<>>)
        ELSE IF "title" \notin event_data_.keys THEN Failed("KeyError", <<>>)
        ELSE IF ~service THEN Failed("AttributeError", <<>>)
        ELSE IF outcome = "fault" THEN Failed("HttpError", attempt)
        ELSE IF outcome = "incomplete" THEN Failed("KeyError", attempt)
        ELSE [raised |-> FALSE, error |-> "",
              value |-> [success |-> TRUE, event_id |-> "evt", event_link |-> "link",
                         summary |-> event.summary, start |-> event.start.dateTime,
                         error |-> ""],
              attempts |-> attempt]

\* add_calendar_event whose except clause catches the API's HttpError only
add_calendar_event_narrow(event_data_, service, outcome) ==
    LET body == add_calendar_event_try(event_data_, service, outcome)
    IN  IF body.raised /\ body.error = "HttpError"
        THEN [body EXCEPT !.raised = FALSE, !.error = "",
                          !.value = CalendarFailure(body.error)]
        ELSE body

\* add_calendar_event with an except block that calls insert once more
\* before it gives up
add_calendar_event_retrying(event_data_, service, outcome) ==
    LET body == add_calendar_event_try(event_data_, service, outcome)
    IN  IF body.raised
        THEN [body EXCEPT !.raised = FALSE, !.error = "",
                          !.value = CalendarFailure(body.error),
                          !.attempts = body.attempts \o body.attempts]
        ELSE body

\* main.py:133-178: except Exception: return {'success': False, 'error': str(e)}
add_calendar_event(event_data_, service, outcome) ==
    LET body == add_calendar_event_try(event_data_, service, outcome)
    IN  IF body.raised
        THEN [body EXCEPT !.raised = FALSE, !.error = "",
                          !.value = CalendarFailure(body.error)]
        ELSE body

----------------------------------------------------------------------------
(* Notes Action: save_to_notion                                            *)

NoNote == [success |-> FALSE, page_id |-> "", url |-> "", error |-> ""]

NoteFailure(e) == [NoNote EXCEPT !.error = e]

\* What notion_client.pages.create can do: raise ("fault"), return the page
\* ("created"), or return a body without 'url' ("incomplete")
CreateOutcomes == {"created", "fault", "incomplete"}

TextNote == "text note"
VoiceNote == "voice note"

\* main.py:222-251
Properties(transcription_, note_type) ==
    [title |-> IF Len(transcription_) > 0
               THEN SliceTo(transcription_, TitleLen) ELSE <<"blank">>,
     content |-> transcription_,
     type |-> note_type]

\* main.py:214-262, the body of the try block.  `dbid` is TRUE iff
\* NOTION_DATABASE_ID is set, `outcome` is what the create call does.
\* `attempts` are the create calls made.
save_to_notion_try(transcription_, note_type, dbid, outcome) ==
    LET attempt == <<[properties |-> Properties(transcription_, note_type),
                      outcome |-> outcome]>>
    IN  IF ~dbid
        THEN [raised |-> FALSE, error |-> "",
              value |-> NoteFailure("NOTION_DATABASE_ID not set"), attempts |-> <<>>]
        ELSE IF outcome = "fault"
        THEN [raised |-> TRUE, error |-> "APIResponseError", value |-> NoNote,
              attempts |-> attempt]
        ELSE IF outcome = "incomplete"
        THEN [raised |-> TRUE, error |-> "KeyError", value |-> NoNote,
              attempts |-> attempt]
        ELSE [raised |-> FALSE, error |-> "",
              value |-> [success |-> TRUE, page_id |-> "page", url |-> "url",
                         error |-> ""],
              attempts |-> attempt]

\* save_to_notion without the `if not database_id` check: the create call is
\* made with no database id
save_to_notion_no_database_check(transcription_, note_type, client, dbid, outcome) ==
    IF ~client
    THEN [raised |-> FALSE, error |-> "",
          value |-> NoteFailure("Notion client not initialized"), attempts |-> <<>>]
    ELSE LET body == save_to_notion_try(transcription_, note_type, TRUE, outcome)
         IN  IF body.raised
             THEN [body EXCEPT !.raised = FALSE, !.error = "",
                               !.value = NoteFailure(body.error)]
             ELSE body

\* main.py:208-265.  `client` is the global notion_client (FALSE = None).
save_to_notion(transcription_, note_type, client, dbid, outcome) ==
    IF ~client
    THEN [raised |-> FALSE, error |-> "",
          value |-> NoteFailure("Notion client not initialized"), attempts |-> <<>>]
    ELSE LET body == save_to_notion_try(transcription_, note_type, dbid, outcome)
         IN  IF body.raised
             THEN [body EXCEPT !.raised = FALSE, !.error = "",
                               !.value = NoteFailure(body.error)]
             ELSE body

----------------------------------------------------------------------------
(* Reply texts.  A reply is its template (tag) and the values put into it. *)

Message(tag) == [tag |-> tag, text |-> <<>>, detail |-> "", start |-> NoTime]

\* a calendar reply that confirms whatever the result says
CalendarMessageOptimistic(res) ==
    [Message("calendar_added") EXCEPT !.detail = res.event_link, !.start = res.start]

\* main.py:189-195
CalendarMessage(res) ==
    IF res.success
    THEN [Message("calendar_added") EXCEPT !.detail = res.event_link, !.start = res.start]
    ELSE [Message("calendar_failed") EXCEPT !.detail = res.error]

\* main.py:295-298
TextNoteMessage(content_, res) ==
    IF res.success
    THEN [Message("note_saved") EXCEPT !.text = content_, !.detail = res.url]
    ELSE [Message("note_failed") EXCEPT !.detail = res.error]

\* main.py:300
NoteUnavailableMessage == Message("note_unavailable")

\* an echo that trims the text before sending it back
EchoMessageStripped(text_) == [Message("echo") EXCEPT !.text = strip(text_)]

\* main.py:322
EchoMessage(text_) == [Message("echo") EXCEPT !.text = text_]

\* main.py:358-361
VoiceNoteMessage(content_, res) ==
    IF res.success
    THEN [Message("voice_saved") EXCEPT !.text = content_, !.detail = res.url]
    ELSE [Message("voice_failed") EXCEPT !.text = content_, !.detail = res.error]

\* main.py:363
VoiceOnlyMessage(content_) == [Message("voice_only") EXCEPT !.text = content_]

\* main.py:388
TranscriptionErrorMessage == Message("transcription_error")

----------------------------------------------------------------------------
(* Initial state: the process has started, no request has arrived.         *)

Boot(at) ==
    /\ calendar_service \in BOOLEAN
    /\ notion_client \in BOOLEAN
    /\ database_id \in BOOLEAN
    /\ pc = at
    /\ kind = "none"
    /\ text = <<>>
    /\ signature_ok = FALSE
    /\ http_status = 0
    /\ response = None
    /\ event_data = None
    /\ result = None
    /\ content = <<>>
    /\ notion_result = None
    /\ reply_text = Message("")
    /\ transcription = None
    /\ temp_created = FALSE
    /\ temp_exists = FALSE
    /\ pending = ""
    /\ escaped = FALSE
    /\ replies = <<>>
    /\ extract_calls = 0
    /\ calendar_writes = <<>>
    /\ notes_writes = <<>>

Init == Boot("idle")

\* per-request state: every request starts from these values (the handlers'
\* locals are fresh, and a new event has a new reply token and temp file)
Fresh(k, t, sig) ==
    /\ kind' = k
    /\ text' = t
    /\ signature_ok' = sig
    /\ response' = None
    /\ event_data' = None
    /\ result' = None
    /\ content' = <<>>
    /\ notion_result' = None
    /\ reply_text' = Message("")
    /\ transcription' = None
    /\ temp_created' = FALSE
    /\ temp_exists' = FALSE
    /\ pending' = ""
    /\ escaped' = FALSE
    /\ replies' = <<>>
    /\ extract_calls' = 0
    /\ calendar_writes' = <<>>
    /\ notes_writes' = <<>>
    /\ UNCHANGED config

\* the handler returned: callback returns 'OK'
Returned == pc' = "done" /\ http_status' = 200 /\ escaped' = FALSE

\* an exception left the handler: handler.handle re-raises it, callback
\* catches InvalidSignatureError only, so the request fails
Escaped == pc' = "done" /\ http_status' = 500 /\ escaped' = TRUE

----------------------------------------------------------------------------
(* callback: main.py:268-280                                               *)

\* callback that swallows InvalidSignatureError and goes on to return 'OK'
callback_reject_swallowed ==
    /\ pc = "idle"
    /\ \E k \in {"text", "audio"}, t \in Texts :
        /\ k = "audio" => t = <<>>
        /\ Fresh(k, t, FALSE)
        /\ pc' = "done"
        /\ http_status' = 200

\* main.py:276-278: handler.handle raises InvalidSignatureError, abort(400)
callback_reject ==
    /\ pc = "idle"
    /\ \E k \in {"text", "audio"}, t \in Texts :
        /\ k = "audio" => t = <<>>
        /\ Fresh(k, t, FALSE)
        /\ pc' = "done"
        /\ http_status' = 400

\* main.py:275: handler.handle dispatches the event to its handler
callback_dispatch ==
    /\ pc = "idle"
    /\ \E k \in {"text", "audio"}, t \in Texts :
        /\ k = "audio" => t = <<>>
        /\ Fresh(k, t, TRUE)
        /\ pc' = IF k = "text" THEN "handle_message" ELSE "handle_audio_message"
        /\ http_status' = 0

----------------------------------------------------------------------------
(* handle_message: main.py:283-324                                         *)

\* main.py:288
IsNoteCommand(text_) == startswith(text_, NotePrefix)

\* the note content without the .strip()
NoteContentUntrimmed(text_) == SliceFrom(text_, PrefixLen)

\* main.py:289
NoteContent(text_) == strip(SliceFrom(text_, PrefixLen))

\* the save test without the check for empty content
ShouldSaveAnyContent(client, content_) == client

\* main.py:291: `if notion_client and content`
ShouldSave(client, content_) == client /\ content_ # <<>>

\* main.py:313: `calendar_service and process_message_for_calendar(...)`
ShouldExtract(service) == service

\* handle_message with the calendar attempt placed before the '/a ' check
handle_message_calendar_first ==
    /\ pc = "handle_message"
    /\ IF ShouldExtract(calendar_service)
       THEN pc' = "parse" /\ content' = content /\ reply_text' = reply_text
       ELSE IF IsNoteCommand(text)
       THEN /\ content' = NoteContent(text)
            /\ IF ShouldSave(notion_client, content')
               THEN pc' = "note_save" /\ reply_text' = reply_text
               ELSE pc' = "note_reply" /\ reply_text' = NoteUnavailableMessage
       ELSE /\ content' = content
            /\ pc' = "echo_reply" /\ reply_text' = EchoMessage(text)
    /\ UNCHANGED <<config, request, response, event_data, result, notion_result,
                   transcription, pending, disk, escaped, effects>>

\* main.py:285-300, 313: the routing decision
handle_message ==
    /\ pc = "handle_message"
    /\ IF IsNoteCommand(text)
       THEN /\ content' = NoteContent(text)
            /\ IF ShouldSave(notion_client, content')
               THEN pc' = "note_save" /\ reply_text' = reply_text
               ELSE pc' = "note_reply" /\ reply_text' = NoteUnavailableMessage
       ELSE /\ content' = content
            /\ IF ShouldExtract(calendar_service)
               THEN pc' = "parse" /\ reply_text' = reply_text
               ELSE pc' = "echo_reply" /\ reply_text' = EchoMessage(text)
    /\ UNCHANGED <<config, request, response, event_data, result, notion_result,
                   transcription, pending, disk, escaped, effects>>

\* main.py:293-298: save_to_notion(content, note_type="文字筆記") and the
\* reply text built from its result
handle_message_save ==
    /\ pc = "note_save"
    /\ \E outcome \in CreateOutcomes :
        LET r == save_to_notion(content, TextNote, notion_client, database_id, outcome)
        IN  /\ notes_writes' = notes_writes \o r.attempts
            /\ IF r.raised
               THEN /\ Escaped
                    /\ UNCHANGED <<notion_result, reply_text>>
               ELSE /\ notion_result' = Some(r.value)
                    /\ reply_text' = TextNoteMessage(content, r.value)
                    /\ pc' = "note_reply"
                    /\ UNCHANGED <<http_status, escaped>>
    /\ UNCHANGED <<config, kind, text, signature_ok, response, event_data, result,
                   content, transcription, pending, disk, replies, extract_calls,
                   calendar_writes>>

\* one LINE reply call outside any try block: it returns (the reply is
\* accepted) or raises (nothing is sent and the exception leaves the handler)
ReplyAndReturn(at) ==
    /\ pc = at
    /\ \E ok \in BOOLEAN :
        IF ok
        THEN replies' = Append(replies, reply_text) /\ Returned
        ELSE replies' = replies /\ Escaped
    /\ UNCHANGED <<config, kind, text, signature_ok, locals, disk, extract_calls,
                   calendar_writes, notes_writes>>

\* main.py:302-310
handle_message_note_reply == ReplyAndReturn("note_reply")

\* main.py:317-324
handle_message_echo == ReplyAndReturn("echo_reply")

----------------------------------------------------------------------------
(* process_message_for_calendar: main.py:181-205                           *)

\* main.py:183-185: event_data = parse_calendar_event(text); a falsy result
\* returns False, and handle_message goes on to the echo
process_message_for_calendar_parse ==
    /\ pc = "parse"
    /\ \E r \in Responses :
        LET p == parse_calendar_event(r)
        IN  /\ response' = Some(r)
            /\ extract_calls' = extract_calls + 1
            /\ IF p.raised
               THEN /\ Escaped
                    /\ UNCHANGED <<event_data, reply_text>>
               ELSE /\ event_data' = p.value
                    /\ IF p.value = None
                       THEN pc' = "echo_reply" /\ reply_text' = EchoMessage(text)
                       ELSE pc' = "add_event" /\ reply_text' = reply_text
                    /\ UNCHANGED <<http_status, escaped>>
    /\ UNCHANGED <<config, kind, text, signature_ok, result, content, notion_result,
                   transcription, pending, disk, replies, calendar_writes,
                   notes_writes>>

\* main.py:187-195: result = add_calendar_event(event_data) and the message
\* built from it
process_message_for_calendar_add ==
    /\ pc = "add_event"
    /\ \E outcome \in InsertOutcomes :
        LET r == add_calendar_event(event_data[1], calendar_service, outcome)
        IN  /\ calendar_writes' = calendar_writes \o r.attempts
            /\ IF r.raised
               THEN /\ Escaped
                    /\ UNCHANGED <<result, reply_text>>
               ELSE /\ result' = Some(r.value)
                    /\ reply_text' = CalendarMessage(r.value)
                    /\ pc' = "calendar_reply"
                    /\ UNCHANGED <<http_status, escaped>>
    /\ UNCHANGED <<config, kind, text, signature_ok, response, event_data, content,
                   notion_result, transcription, pending, disk, replies,
                   extract_calls, notes_writes>>

\* process_message_for_calendar ending with `return result['success']`: after
\* a failed write handle_message goes on to the echo
process_message_for_calendar_reply_returns_success ==
    /\ pc = "calendar_reply"
    /\ \E ok \in BOOLEAN :
        IF ok
        THEN /\ replies' = Append(replies, reply_text)
             /\ IF result[1].success
                THEN Returned /\ reply_text' = reply_text
                ELSE /\ pc' = "echo_reply" /\ reply_text' = EchoMessage(text)
                     /\ UNCHANGED <<http_status, escaped>>
        ELSE replies' = replies /\ Escaped /\ reply_text' = reply_text
    /\ UNCHANGED <<config, kind, text, signature_ok, response, event_data, result,
                   content, notion_result, transcription, pending, disk,
                   extract_calls, calendar_writes, notes_writes>>

\* main.py:197-205, then `return` at main.py:314
process_message_for_calendar_reply == ReplyAndReturn("calendar_reply")

----------------------------------------------------------------------------
(* handle_audio_message: main.py:327-390                                   *)

\* main.py:333-335: get_message_content returns the bytes or raises
handle_audio_message_fetch ==
    /\ pc = "handle_audio_message"
    /\ \E ok \in BOOLEAN :
        IF ok
        THEN pc' = "temp_create" /\ pending' = pending
        ELSE pc' = "audio_except" /\ pending' = "BlobFetchFault"
    /\ UNCHANGED <<config, request, response, event_data, result, content,
                   notion_result, reply_text, transcription, disk, escaped, effects>>

\* main.py:338: NamedTemporaryFile(delete=False, suffix='.m4a') creates the
\* file or raises
handle_audio_message_create ==
    /\ pc = "temp_create"
    /\ \E ok \in BOOLEAN :
        IF ok
        THEN /\ temp_created' = TRUE /\ temp_exists' = TRUE
             /\ pc' = "temp_write" /\ pending' = pending
        ELSE /\ UNCHANGED disk
             /\ pc' = "audio_except" /\ pending' = "TempCreateFault"
    /\ UNCHANGED <<config, request, response, event_data, result, content,
                   notion_result, reply_text, transcription, escaped, effects>>

\* main.py:339-340: temp_audio.write(audio_content); leaving the with block
\* closes the file and, with delete=False, keeps it on disk.  A raise here is
\* outside the inner try/finally (main.py:342) and goes to main.py:380.
handle_audio_message_write ==
    /\ pc = "temp_write"
    /\ \E ok \in BOOLEAN :
        IF ok
        THEN pc' = "transcribe" /\ pending' = pending
        ELSE pc' = "audio_except" /\ pending' = "TempWriteFault"
    /\ UNCHANGED <<config, request, response, event_data, result, content,
                   notion_result, reply_text, transcription, disk, escaped, effects>>

\* the transcription call placed before the inner try block: its exception
\* goes to the outer except without passing the finally block
handle_audio_message_transcribe_outside_try ==
    /\ pc = "transcribe"
    /\ \/ \E t \in Texts :
            /\ transcription' = Some(t)
            /\ pc' = "audio_route"
            /\ pending' = pending
       \/ /\ transcription' = transcription
          /\ pc' = "audio_except"
          /\ pending' = "TranscriptionFault"
    /\ UNCHANGED <<config, request, response, event_data, result, content,
                   notion_result, reply_text, disk, escaped, effects>>

\* main.py:344-349: Whisper returns the text or raises
handle_audio_message_transcribe ==
    /\ pc = "transcribe"
    /\ \/ \E t \in Texts :
            /\ transcription' = Some(t)
            /\ pc' = "audio_route"
            /\ pending' = pending
       \/ /\ transcription' = transcription
          /\ pc' = "audio_finally"
          /\ pending' = "TranscriptionFault"
    /\ UNCHANGED <<config, request, response, event_data, result, content,
                   notion_result, reply_text, disk, escaped, effects>>

\* handle_audio_message that tries the transcript as a calendar event first
handle_audio_message_route_extract ==
    /\ pc = "audio_route"
    /\ content' = strip(transcription[1])
    /\ IF ShouldExtract(calendar_service)
       THEN pc' = "parse" /\ reply_text' = reply_text
       ELSE IF ShouldSave(notion_client, content')
       THEN pc' = "audio_save" /\ reply_text' = reply_text
       ELSE pc' = "audio_reply" /\ reply_text' = VoiceOnlyMessage(content')
    /\ UNCHANGED <<config, request, response, event_data, result, notion_result,
                   transcription, pending, disk, escaped, effects>>

\* main.py:352-354, 362-363
handle_audio_message_route ==
    /\ pc = "audio_route"
    /\ content' = strip(transcription[1])
    /\ IF ShouldSave(notion_client, content')
       THEN pc' = "audio_save" /\ reply_text' = reply_text
       ELSE pc' = "audio_reply" /\ reply_text' = VoiceOnlyMessage(content')
    /\ UNCHANGED <<config, request, response, event_data, result, notion_result,
                   transcription, pending, disk, escaped, effects>>

\* main.py:355-361: save_to_notion(content, note_type="語音筆記") and the
\* reply text built from its result
handle_audio_message_save ==
    /\ pc = "audio_save"
    /\ \E outcome \in CreateOutcomes :
        LET r == save_to_notion(content, VoiceNote, notion_client, database_id, outcome)
        IN  /\ notes_writes' = notes_writes \o r.attempts
            /\ IF r.raised
               THEN /\ pc' = "audio_finally"
                    /\ pending' = r.error
                    /\ UNCHANGED <<notion_result, reply_text>>
               ELSE /\ notion_result' = Some(r.value)
                    /\ reply_text' = VoiceNoteMessage(content, r.value)
                    /\ pc' = "audio_reply"
                    /\ pending' = pending
    /\ UNCHANGED <<config, request, response, event_data, result, content,
                   transcription, disk, escaped, replies, extract_calls,
                   calendar_writes>>

\* main.py:366-373: the reply inside the inner try block
handle_audio_message_reply ==
    /\ pc = "audio_reply"
    /\ \E ok \in BOOLEAN :
        IF ok
        THEN replies' = Append(replies, reply_text) /\ pending' = pending
        ELSE replies' = replies /\ pending' = "ReplyFault"
    /\ pc' = "audio_finally"
    /\ UNCHANGED <<config, request, response, event_data, result, content,
                   notion_result, reply_text, transcription, disk, escaped,
                   extract_calls, calendar_writes, notes_writes>>

\* main.py:374-378: the finally block.  os.unlink removes the file or raises
\* (the file stays, and the new exception replaces one in flight).  Without
\* an exception in flight the handler returns; with one, main.py:380 runs.
handle_audio_message_finally ==
    /\ pc = "audio_finally"
    /\ \E ok \in BOOLEAN :
        /\ IF temp_exists
           THEN IF ok
                THEN temp_exists' = FALSE /\ pending' = pending
                ELSE temp_exists' = temp_exists /\ pending' = "UnlinkFault"
           ELSE temp_exists' = temp_exists /\ pending' = pending
        /\ IF pending' = ""
           THEN Returned
           ELSE pc' = "audio_except" /\ UNCHANGED <<http_status, escaped>>
    /\ UNCHANGED <<config, kind, text, signature_ok, response, event_data, result,
                   content, notion_result, reply_text, transcription, temp_created,
                   effects>>

\* main.py:380-390: except Exception: log, send the transcription-error
\* reply.  That reply call is in no try block.
handle_audio_message_except ==
    /\ pc = "audio_except"
    /\ reply_text' = TranscriptionErrorMessage
    /\ \E ok \in BOOLEAN :
        IF ok
        THEN replies' = Append(replies, reply_text') /\ Returned
        ELSE replies' = replies /\ Escaped
    /\ UNCHANGED <<config, kind, text, signature_ok, response, event_data, result,
                   content, notion_result, transcription, pending, disk,
                   extract_calls, calendar_writes, notes_writes>>

----------------------------------------------------------------------------

\* main.py:268-280: the response has been sent; the server waits for the
\* next request
callback_done ==
    /\ pc = "done"
    /\ Fresh("none", <<>>, FALSE)
    /\ pc' = "idle"
    /\ http_status' = 0

Next ==
    \/ callback_reject
    \/ callback_dispatch
    \/ handle_message
    \/ handle_message_save
    \/ handle_message_note_reply
    \/ handle_message_echo
    \/ process_message_for_calendar_parse
    \/ process_message_for_calendar_add
    \/ process_message_for_calendar_reply
    \/ handle_audio_message_fetch
    \/ handle_audio_message_create
    \/ handle_audio_message_write
    \/ handle_audio_message_transcribe
    \/ handle_audio_message_route
    \/ handle_audio_message_save
    \/ handle_audio_message_reply
    \/ handle_audio_message_finally
    \/ handle_audio_message_except
    \/ callback_done

Spec == Init /\ [][Next]_vars

----------------------------------------------------------------------------
(* The three actions called directly, on every input of their domain: the  *)
(* handlers above reach only part of it (add_calendar_event only with a    *)
(* calendar service and a complete event dict, save_to_notion only with a  *)
(* client and non-empty content).                                          *)

\* the event dicts add_calendar_event can be handed
EventDicts ==
    {e \in [keys : SUBSET EventKeys, title : TitleValues \cup {""},
            start_time : StartValues \cup {NoTime},
            end_time : EndValues \cup {NoTime},
            location : LocationValues \cup {"None"}] :
        /\ ("title" \in e.keys) <=> (e.title # "")
        /\ ("start_time" \in e.keys) <=> (e.start_time # NoTime)
        /\ ("end_time" \in e.keys) <=> (e.end_time # NoTime)
        /\ ("location" \notin e.keys) => (e.location = "None")}

InitUnit == Boot("unit")

\* the state after one direct call: what the call was given, what it
\* returned, whether it raised, and the writes it attempted
Called(at, resp, ev, res, cont, note, raised, cal, notes) ==
    /\ pc' = at
    /\ response' = resp
    /\ event_data' = ev
    /\ result' = res
    /\ content' = cont
    /\ notion_result' = note
    /\ escaped' = raised
    /\ calendar_writes' = cal
    /\ notes_writes' = notes
    /\ extract_calls' = IF resp = None THEN 0 ELSE 1
    /\ UNCHANGED <<config, request, reply_text, transcription, pending, disk, replies>>

\* main.py:68-130 called with any response of the extraction capability
call_parse_calendar_event ==
    /\ pc = "unit"
    /\ \E r \in Responses :
        LET p == parse_calendar_event(r)
        IN  Called("parse_calendar_event", Some(r), p.value, None, <<>>, None,
                   p.raised, <<>>, <<>>)

\* main.py:133-178 called with any event dict
call_add_calendar_event ==
    /\ pc = "unit"
    /\ \E e \in EventDicts, outcome \in InsertOutcomes :
        LET r == add_calendar_event(e, calendar_service, outcome)
        IN  Called("add_calendar_event", None, Some(e),
                   IF r.raised THEN None ELSE Some(r.value), <<>>, None,
                   r.raised, r.attempts, <<>>)

\* main.py:208-265 called with any content and either tag
call_save_to_notion ==
    /\ pc = "unit"
    /\ \E t \in Texts, tag \in {TextNote, VoiceNote}, outcome \in CreateOutcomes :
        LET r == save_to_notion(t, tag, notion_client, database_id, outcome)
        IN  Called("save_to_notion", None, None, None, t,
                   IF r.raised THEN None ELSE Some(r.value),
                   r.raised, <<>>, r.attempts)

\* the call is over; the next one starts from scratch
call_done ==
    /\ pc \in {"parse_calendar_event", "add_calendar_event", "save_to_notion"}
    /\ Fresh("none", <<>>, FALSE)
    /\ pc' = "unit"
    /\ http_status' = 0

NextUnit ==
    \/ call_parse_calendar_event
    \/ call_add_calendar_event
    \/ call_save_to_notion
    \/ call_done

SpecUnit == InitUnit /\ [][NextUnit]_vars

----------------------------------------------------------------------------
(* Properties                                                              *)

\* the request was authenticated and its handler has finished
Handled == pc = "done" /\ signature_ok

\* C1: when the handling of an authenticated message (text or audio) has
\* finished, exactly one reply has been sent for its reply token, whatever
\* the collaborators did.
ExactlyOneReply == Handled => Len(replies) = 1

\* C2: while one message is handled, the calendar insert attempts and the
\* notes create attempts together number at most one, in every state.
AtMostOneWrite == Len(calendar_writes) + Len(notes_writes) <= 1

\* a calendar insert faulted, and handling finished with that single attempt
AtMostOneWriteWitness ==
    /\ Handled
    /\ Len(calendar_writes) = 1
    /\ calendar_writes[1].outcome = "fault"
    /\ notes_writes = <<>>
    /\ Len(replies) = 1

\* C3: no exception leaves handle_message or handle_audio_message.
NoExceptionEscapes == ~escaped

\* the audio message's transcription succeeded
Transcribed == kind = "audio" /\ transcription # None

\* the replies an audio message can get from the notes branch
VoiceTags == {"voice_saved", "voice_failed", "voice_only"}

\* C4 (as stated): for an audio message whose transcription succeeded, with
\* the calendar collaborator configured, the Intent Extractor has been
\* invoked on the transcript by the time handling finishes.
AudioTranscriptIsExtracted ==
    (Handled /\ Transcribed /\ calendar_service) => extract_calls = 1

\* C4 (amended): for an audio message whose transcription succeeded, the
\* Intent Extractor is never invoked and no calendar write is made, whether
\* or not the calendar collaborator is configured; every write is a notes
\* write tagged as a voice note, and every reply sent from the inner block
\* renders the transcript.
AudioNeverExtracted ==
    Transcribed =>
        /\ extract_calls = 0
        /\ event_data = None
        /\ calendar_writes = <<>>
        /\ \A i \in 1..Len(notes_writes) : notes_writes[i].properties.type = VoiceNote
        /\ \A i \in 1..Len(replies) :
            replies[i].tag \in VoiceTags \cup {"transcription_error"}
        /\ (Handled /\ pending = "") =>
            /\ Len(replies) = 1
            /\ replies[1].tag \in VoiceTags
            /\ replies[1].text = strip(transcription[1])

\* an audio message with the calendar collaborator configured was saved as a
\* voice note without any extraction
AudioNeverExtractedWitness ==
    /\ Handled
    /\ Transcribed
    /\ calendar_service
    /\ extract_calls = 0
    /\ Len(notes_writes) = 1
    /\ Len(replies) = 1
    /\ replies[1].tag = "voice_saved"

\* C5: after the handling of an audio message has ended, on every exit path,
\* the temporary audio file of that message is not on disk.
TempFileRemoved == (Handled /\ kind = "audio") => ~temp_exists

\* the text begins with '/', 'a', ' '
HasNotePrefix == Len(text) >= 3 /\ text[1] = "/" /\ text[2] = "a" /\ text[3] = " "

NoteTags == {"note_saved", "note_failed", "note_unavailable"}

\* C6: a text message that begins with '/a ' is owned by the note branch:
\* the Intent Extractor and the calendar insert are never invoked for it,
\* no reply is an echo, and every notes write carries the text-note tag.
NotePrefixOwnsMessage ==
    (kind = "text" /\ HasNotePrefix) =>
        /\ extract_calls = 0
        /\ response = None
        /\ calendar_writes = <<>>
        /\ \A i \in 1..Len(replies) : replies[i].tag \in NoteTags
        /\ \A i \in 1..Len(notes_writes) : notes_writes[i].properties.type = TextNote

\* a '/a ' message was saved as a note although the calendar collaborator
\* is configured
NotePrefixOwnsMessageWitness ==
    /\ Handled
    /\ kind = "text"
    /\ HasNotePrefix
    /\ calendar_service
    /\ Len(notes_writes) = 1
    /\ Len(replies) = 1
    /\ replies[1].tag = "note_saved"

\* C7: once the Intent Extractor has yielded an event for a text message,
\* the only reply is the Calendar Action's outcome (the confirmation after a
\* successful write, the labelled failure otherwise), no reply is an echo,
\* and the Notes Action is never called; the reply is sent whenever the
\* reply call itself returns.
CalendarOutcomeIsReply ==
    (kind = "text" /\ event_data # None) =>
        /\ notes_writes = <<>>
        /\ Len(replies) <= 1
        /\ \A i \in 1..Len(replies) :
            /\ result # None
            /\ replies[i].tag =
                 IF result[1].success THEN "calendar_added" ELSE "calendar_failed"
            /\ (calendar_writes = <<>> \/ calendar_writes[1].outcome # "created")
                 => replies[i].tag = "calendar_failed"
        /\ (Handled /\ ~escaped) => Len(replies) = 1

\* the calendar insert faulted and the user got the calendar-failure message
CalendarOutcomeIsReplyWitness ==
    /\ Handled
    /\ kind = "text"
    /\ event_data # None
    /\ Len(calendar_writes) = 1
    /\ calendar_writes[1].outcome = "fault"
    /\ Len(replies) = 1
    /\ replies[1].tag = "calendar_failed"

\* C8: for a text message that does not begin with '/a ' and for which no
\* event was extracted, no calendar or notes write is attempted, and the
\* reply is the original text, unchanged; it is sent whenever the reply call
\* itself returns.
EchoWhenNoEvent ==
    (kind = "text" /\ ~HasNotePrefix /\ event_data = None) =>
        /\ calendar_writes = <<>>
        /\ notes_writes = <<>>
        /\ Len(replies) <= 1
        /\ \A i \in 1..Len(replies) :
            replies[i] = [tag |-> "echo", text |-> text, detail |-> "", start |-> NoTime]
        /\ (Handled /\ ~escaped) => Len(replies) = 1

\* a text with leading white space was echoed as it came, after the
\* extractor found no event
EchoWhenNoEventWitness ==
    /\ Handled
    /\ kind = "text"
    /\ ~HasNotePrefix
    /\ Len(text) >= 2
    /\ text[1] = " "
    /\ response # None
    /\ response[1].shape = "no_tool_calls"
    /\ Len(replies) = 1
    /\ replies[1].text = text

\* the responses the claim lists: a fault, no structured response,
\* unparseable arguments, has_event absent or false, has_event true with a
\* field the code reads missing
NullCase(r) ==
    \/ r.shape \in {"fault", "no_tool_calls", "bad_json"}
    \/ /\ r.shape = "args"
       /\ \/ "has_event" \notin r.args.keys
          \/ ~r.args.has_event
          \/ "title" \notin r.args.keys
          \/ "start_time" \notin r.args.keys
          \/ "end_time" \notin r.args.keys

\* C9: in each of the listed cases the Intent Extractor returns null and
\* does not raise, and the message is handled as one with no event: the text
\* is echoed, nothing is written, and no error message is sent.
ExtractorNormalizesToNull ==
    (kind = "text" /\ response # None /\ NullCase(response[1])) =>
        /\ event_data = None
        /\ result = None
        /\ calendar_writes = <<>>
        /\ notes_writes = <<>>
        /\ reply_text.tag = "echo"
        /\ \A i \in 1..Len(replies) : replies[i].tag = "echo" /\ replies[i].text = text

\* has_event is true and end_time is missing: the message was echoed
ExtractorNormalizesToNullWitness ==
    /\ Handled
    /\ kind = "text"
    /\ response # None
    /\ response[1].shape = "args"
    /\ response[1].args.has_event
    /\ {"title", "start_time"} \subseteq response[1].args.keys
    /\ "end_time" \notin response[1].args.keys
    /\ Len(replies) = 1
    /\ replies[1].tag = "echo"

\* an event dict add_calendar_event cannot turn into a request body
BadEvent(e) ==
    \/ ~({"title", "start_time", "end_time"} \subseteq e.keys)
    \/ e.start_time.wall = "bad"
    \/ e.end_time.wall = "bad"

\* C10: add_calendar_event never raises; on every failure (collaborator
\* absent or faulting, malformed timestamp, missing field of the event dict
\* or of the collaborator's response) it returns success = false with an
\* error text, and it returns success = true only when the insert call
\* returned a created event.
CalendarActionNeverRaises ==
    pc = "add_calendar_event" =>
        /\ ~escaped
        /\ result # None
        /\ result[1].success =>
            /\ Len(calendar_writes) = 1
            /\ calendar_writes[1].outcome = "created"
            /\ result[1].error = ""
        /\ ~result[1].success => result[1].error # ""
        /\ (~calendar_service \/ BadEvent(event_data[1])) =>
            ~result[1].success /\ calendar_writes = <<>>
        /\ (calendar_writes # <<>> /\ calendar_writes[1].outcome # "created") =>
            ~result[1].success

\* the calendar collaborator is absent and the event dict is well formed:
\* the result is a failure carrying the error
CalendarActionNeverRaisesWitness ==
    /\ pc = "add_calendar_event"
    /\ ~calendar_service
    /\ ~BadEvent(event_data[1])
    /\ result # None
    /\ ~result[1].success
    /\ result[1].error = "AttributeError"

\* C11 (as stated): save_to_notion called with empty content, or with the
\* notes collaborator unconfigured, returns a failure result with a reason,
\* makes no create call and does not raise.
NotesActionRefusesEmptyOrUnconfigured ==
    (pc = "save_to_notion" /\ (content = <<>> \/ ~notion_client)) =>
        /\ ~escaped
        /\ notion_result # None
        /\ ~notion_result[1].success
        /\ notion_result[1].error # ""
        /\ notes_writes = <<>>

\* C11 (amended): save_to_notion never raises; with the notes collaborator
\* unconfigured (no client, or no database id) it returns a failure result
\* with a reason and makes no create call; with empty content and a
\* configured collaborator it does make the create call, under the
\* placeholder title.
NotesActionRefusesUnconfigured ==
    pc = "save_to_notion" =>
        /\ ~escaped
        /\ notion_result # None
        /\ ~notion_result[1].success => notion_result[1].error # ""
        /\ (~notion_client \/ ~database_id) =>
            /\ ~notion_result[1].success
            /\ notes_writes = <<>>
        /\ (notion_client /\ database_id) =>
            /\ Len(notes_writes) = 1
            /\ notes_writes[1].properties.content = content
            /\ content = <<>> => notes_writes[1].properties.title = <<"blank">>
            /\ content # <<>> => notes_writes[1].properties.title = content
            /\ notion_result[1].success <=> notes_writes[1].outcome = "created"

\* the client exists but no database id is set: failure, and no create call
NotesActionRefusesUnconfiguredWitness ==
    /\ pc = "save_to_notion"
    /\ notion_client
    /\ ~database_id
    /\ content # <<>>
    /\ notion_result # None
    /\ notion_result[1].error = "NOTION_DATABASE_ID not set"
    /\ notes_writes = <<>>

\* the transcription call of this audio message raised (the exception in
\* flight is that fault, or the unlink fault that replaced it)
TranscriptionFaulted ==
    /\ kind = "audio"
    /\ temp_created
    /\ transcription = None
    /\ pending \in {"TranscriptionFault", "UnlinkFault"}

\* C12: for an audio message whose transcription call faults, no notes or
\* calendar write is attempted, the only reply is the transcription-failure
\* message (sent whenever the reply call returns), and the temporary file
\* has been removed before that reply is attempted unless os.unlink itself
\* raised.
TranscriptionFaultOutcome ==
    TranscriptionFaulted =>
        /\ notes_writes = <<>>
        /\ calendar_writes = <<>>
        /\ extract_calls = 0
        /\ Len(replies) <= 1
        /\ \A i \in 1..Len(replies) : replies[i] = Message("transcription_error")
        /\ (pc \in {"audio_except", "done"} /\ pending = "TranscriptionFault")
            => ~temp_exists
        /\ (Handled /\ ~escaped) => Len(replies) = 1

\* the transcription faulted, the file is gone and the failure reply is out
TranscriptionFaultOutcomeWitness ==
    /\ Handled
    /\ TranscriptionFaulted
    /\ pending = "TranscriptionFault"
    /\ ~temp_exists
    /\ replies = <<Message("transcription_error")>>

\* C13: a request whose signature does not verify is answered with status
\* 400: no handler runs, no reply is sent and no extraction, transcription,
\* calendar or notes call is made.
BadSignatureRejected ==
    (kind # "none" /\ ~signature_ok) =>
        /\ pc = "done"
        /\ http_status = 400
        /\ ~escaped
        /\ replies = <<>>
        /\ extract_calls = 0
        /\ response = None
        /\ transcription = None
        /\ ~temp_created
        /\ calendar_writes = <<>>
        /\ notes_writes = <<>>
        /\ reply_text = Message("")

\* an audio request with a bad signature was rejected
BadSignatureRejectedWitness ==
    /\ pc = "done"
    /\ kind = "audio"
    /\ ~signature_ok
    /\ http_status = 400

\* the extraction answered has_event = true with a title and a start_time
\* but no end_time
MissingEndTime ==
    /\ kind = "text"
    /\ response # None
    /\ response[1].shape = "args"
    /\ "has_event" \in response[1].args.keys
    /\ response[1].args.has_event
    /\ {"title", "start_time"} \subseteq response[1].args.keys
    /\ "end_time" \notin response[1].args.keys

\* C14: when the extraction response has has_event = true and a start_time
\* but no end_time, the Intent Extractor yields an event with an end_time
\* of its own making, and the message is handled as a calendar event.
DefaultDurationApplied ==
    MissingEndTime =>
        /\ event_data # None
        /\ event_data[1].end_time # NoTime
        /\ \A i \in 1..Len(replies) : replies[i].tag \in {"calendar_added", "calendar_failed"}

\* the text without its first three characters and without the white space
\* around what is left
TrimmedRest == strip(SubSeq(text, 4, Len(text)))

\* C15: for a text message beginning with '/a ', the content handed to the
\* Notes Action and stored as the record's content is the text without its
\* first 3 characters, trimmed; when that is empty no write is made and the
\* reply is the "not configured or empty" text.
NoteContentStored ==
    (kind = "text" /\ HasNotePrefix /\ signature_ok) =>
        /\ pc # "handle_message" => content = TrimmedRest
        /\ \A i \in 1..Len(notes_writes) :
            notes_writes[i].properties.content = TrimmedRest
        /\ \A i \in 1..Len(replies) :
            replies[i].tag = "note_saved" => replies[i].text = TrimmedRest
        /\ TrimmedRest = <<>> =>
            /\ notes_writes = <<>>
            /\ notion_result = None
            /\ \A i \in 1..Len(replies) : replies[i] = Message("note_unavailable")
            /\ (Handled /\ ~escaped) => Len(replies) = 1

\* '/a ' followed by a blank and a character: the stored content is that
\* character alone
NoteContentStoredWitness ==
    /\ Handled
    /\ kind = "text"
    /\ HasNotePrefix
    /\ Len(text) = 5
    /\ text[4] = " "
    /\ Len(notes_writes) = 1
    /\ notes_writes[1].properties.content = <<text[5]>>
    /\ notes_writes[1].outcome = "created"

\* the transcript as the audio handler renders and stores it
TrimmedTranscript == strip(transcription[1])

\* C16: an audio message's transcript is saved through the Notes Action with
\* the voice-note tag when the notes collaborator is configured and the
\* transcript is not empty; otherwise no write is attempted and the reply is
\* the transcript alone.
VoiceNoteRouting ==
    (Transcribed /\ pc # "audio_route") =>
        /\ content = TrimmedTranscript
        /\ IF notion_client /\ TrimmedTranscript # <<>>
           THEN /\ pc # "audio_save" =>
                    /\ notion_result # None
                    /\ database_id => Len(notes_writes) = 1
                /\ \A i \in 1..Len(notes_writes) :
                    /\ notes_writes[i].properties.type = VoiceNote
                    /\ notes_writes[i].properties.content = TrimmedTranscript
                /\ \A i \in 1..Len(replies) :
                    /\ replies[i].tag \in {"voice_saved", "voice_failed", "transcription_error"}
                    /\ replies[i].tag # "transcription_error" =>
                        replies[i] = VoiceNoteMessage(TrimmedTranscript, notion_result[1])
           ELSE /\ notes_writes = <<>>
                /\ notion_result = None
                /\ \A i \in 1..Len(replies) :
                    replies[i] \in {VoiceOnlyMessage(TrimmedTranscript), TranscriptionErrorMessage}

\* a transcript stored as a voice note and confirmed
VoiceNoteRoutingWitness ==
    /\ Handled
    /\ Transcribed
    /\ notion_client
    /\ Len(notes_writes) = 1
    /\ notes_writes[1].properties.type = VoiceNote
    /\ notes_writes[1].outcome = "created"
    /\ Len(replies) = 1
    /\ replies[1].tag = "voice_saved"

\* no call is made on a collaborator that is absent
AbsentCollaboratorNotCalled ==
    /\ ~calendar_service => extract_calls = 0 /\ calendar_writes = <<>>
    /\ ~notion_client => notes_writes = <<>>

\* C17: with any of the optional collaborators (calendar, notes) absent, a
\* text or audio message is handled to the end without an exception: no call
\* is made on the absent collaborator, a text message without the calendar is
\* echoed, and the message has its reply.
AbsentCollaboratorsHandled ==
    (~calendar_service \/ ~notion_client) =>
        /\ AbsentCollaboratorNotCalled
        /\ (Handled /\ kind = "text" /\ ~HasNotePrefix /\ ~calendar_service) =>
            replies = <<EchoMessage(text)>>
        /\ Handled => ~escaped /\ Len(replies) >= 1

\* the timestamp string carries no UTC offset
IsNaive(s) == s.off = ""

\* the wall-clock time of s with the offset of Asia/Taipei
InTaipei(s) == [wall |-> s.wall, off |-> "+08:00"]

\* C18: in every event submitted to the calendar, a start_time or end_time
\* that parsed without timezone information carries the offset of the
\* configured timezone (never none, never UTC), and the event's timeZone
\* fields name the configured timezone.
NaiveTimesLocalized ==
    \A i \in 1..Len(calendar_writes) :
        LET body == calendar_writes[i].body
            given == event_data[1]
        IN  /\ body.start.timeZone = "Asia/Taipei"
            /\ body.end.timeZone = "Asia/Taipei"
            /\ body.start.dateTime.off # ""
            /\ body.end.dateTime.off # ""
            /\ IsNaive(given.start_time) => body.start.dateTime = InTaipei(given.start_time)
            /\ IsNaive(given.end_time) => body.end.dateTime = InTaipei(given.end_time)
            /\ ~IsNaive(given.start_time) => body.start.dateTime = given.start_time

\* an event with naive start and end was inserted with the Taipei offset
NaiveTimesLocalizedWitness ==
    /\ Handled
    /\ Len(calendar_writes) = 1
    /\ calendar_writes[1].outcome = "created"
    /\ IsNaive(event_data[1].start_time)
    /\ IsNaive(event_data[1].end_time)
    /\ calendar_writes[1].body.start.dateTime.off = "+08:00"
    /\ calendar_writes[1].body.end.dateTime.off = "+08:00"

\* a notes create call of this message returned a page
NoteCreated == \E i \in 1..Len(notes_writes) : notes_writes[i].outcome = "created"

\* C19 (as stated): an audio message whose note was created in the notes
\* store has not been answered with the transcription-error text.
NoTranscriptionErrorAfterSave ==
    (kind = "audio" /\ NoteCreated) =>
        \A i \in 1..Len(replies) : replies[i].tag # "transcription_error"

\* a calendar insert call of this message returned the created event
EventCreated == \E i \in 1..Len(calendar_writes) : calendar_writes[i].outcome = "created"

\* C20: in every state, a confirmation reply (event added, note saved) has
\* been sent only if the corresponding write call had already returned
\* success, and a write-failure reply only if the write failed or was
\* refused; no confirmation exists without a successful write.
ReplyAgreesWithWrite ==
    \A i \in 1..Len(replies) :
        LET tag == replies[i].tag
        IN  /\ tag = "calendar_added" =>
                EventCreated /\ result # None /\ result[1].success
            /\ tag = "calendar_failed" =>
                ~EventCreated /\ result # None /\ ~result[1].success
            /\ tag \in {"note_saved", "voice_saved"} =>
                NoteCreated /\ notion_result # None /\ notion_result[1].success
            /\ tag \in {"note_failed", "voice_failed"} =>
                ~NoteCreated /\ notion_result # None /\ ~notion_result[1].success
            /\ tag \in {"note_unavailable", "voice_only", "echo"} =>
                ~NoteCreated /\ ~EventCreated

\* an insert that faulted, answered with the failure reply
ReplyAgreesWithWriteWitness ==
    /\ Handled
    /\ Len(calendar_writes) = 1
    /\ calendar_writes[1].outcome = "fault"
    /\ Len(replies) = 1
    /\ replies[1].tag = "calendar_failed"

====
